---- MODULE Spec2Model ----
(***************************************************************************)
(* Model of the LearnUs downloader web service: the Flask routes           *)
(* (src/app/routes.py), the task registry and the worker / sub-job threads *)
(* (src/app/tasks.py) and the download utilities (src/learnus_core.py).    *)
(*                                                                         *)
(* Threads of the program and how they appear here:                        *)
(*   request r : one HTTP request on /api/login-download or                *)
(*               /api/html-download (rpc, request, response)               *)
(*   worker  o : the daemon thread started for DownloadTask o (wpc, wloc)  *)
(*   job <<o,f>> : the thread running _dl_wrapper for format f (jpc, jn)   *)
(*   client c  : one HTTP client issuing /api/progress and /api/download   *)
(*               requests one after the other (cpc, cop, cacc, cresp)      *)
(* The worker's call of extract_from_login is taken either as one step with *)
(* any of its results (Extract) or one HTTP exchange at a time (hpc, hloc,  *)
(* sent, hres), as the specification at hand needs.                        *)
(* One step of the model is one access to shared state (an attribute read  *)
(* or write of a DownloadTask, the registry dict, the lock, the output     *)
(* directory); thread-local computation is folded into the next access.    *)
(***************************************************************************)
EXTENDS Integers, Sequences, FiniteSets, TLC

(* ------------------------------ bounds --------------------------------- *)
\* number of concurrent submissions in the multi-task specification
MaxRequests == 2
\* number of progress events one transcode run emits at most
MaxEvents == 2
\* length of the titles of the specification that draws titles
MaxTitle == 2
\* number of tokens the backend issues at most
MaxTokens == 2

(* --------------------------- Python values ----------------------------- *)
\* Python's None, for values that are otherwise strings
None == "<None>"
\* truthiness of an Optional[str]: None and '' are falsy
PyTruthy(s) == s # None /\ s # ""

\* bool(data.get(k)) on a JSON value: null/absent, false, 0 and "" are falsy
JsonBool(v) == v \notin {"null", "false", "0", "\"\""}
\* request.form.get(k) == 'true'
FormBool(v) == v = "true"

\* the thread that holds no lock
NoThread == <<"none", 0>>

(* ------------------------- files and paths ----------------------------- *)
Fmts == {"mp4", "mp3"}
DEFAULT_DOWNLOAD_FOLDER == "downloads"
\* a variant that names every artifact as the video: f"{video_title}.mp4"
FileNameMp4(video_title, fmt) == <<video_title, "mp4">>
\* f"{video_title}.mp4" / f"{video_title}.mp3"
FileName(video_title, fmt) == <<video_title, fmt>>
\* os.path.join(download_folder, file_name)
PathJoin(download_folder, file_name) == <<download_folder>> \o file_name
\* os.path.basename(path)
Basename(path) == SubSeq(path, 2, Len(path))

VARIABLES
    request,      \* r -> the parameters the HTTP request carries
    rpc,          \* r -> position of the route handler
    response,     \* r -> the HTTP response, NoResponse until sent
    heap,         \* o -> the DownloadTask object created by request o
    tasks,        \* the registry dict: task id -> object
    _tasks_lock,  \* the thread holding the registry lock
    issued,       \* ids uuid4 has produced so far
    wpc,          \* o -> position of the worker thread of object o
    wloc,         \* o -> locals of the worker (m3u8_url, video_title, pending error)
    jpc,          \* o -> format -> position of the sub-job thread
    jn,           \* o -> format -> number of progress events emitted
    jlast,        \* o -> format -> last percentage the transcode run emitted
    jexc,         \* o -> format -> str(e) of the exception the run raised
    disk,         \* the paths that exist in the output directory
    cpc,          \* c -> position of the client's current request
    cop,          \* c -> the client's current request (route and arguments)
    cacc,         \* c -> the task reference and the fields read so far
    cresp,        \* c -> the last response the client received
    seen,         \* c -> record contents that existed during the current read;
                  \*      once it is over, the one the response equals, if any
    hpc,          \* o -> position of extract_from_login when it is run step by step
    hloc,         \* o -> locals of extract_from_login (res, the last response
                  \*      received, and km, the key modulus)
    sent,         \* o -> the requests the session of extract_from_login has sent
    hres,         \* o -> what extract_from_login returned or raised, once it is over
    _SESSIONS,    \* backend: the session store, token -> client (None for a guest)
    bissued,      \* backend: the tokens uuid4 has produced so far
    bpc,          \* b -> position of the backend request of caller b
    bop,          \* b -> the last request of caller b: its route and its token,
                  \*      and whether a logout of that token had succeeded before
    bresp,        \* b -> the status code of the response to the last request of
                  \*      caller b, 0 while it is awaited
    loggedout     \* the tokens whose logout has been answered ok

\* the variables of the handshake
hvars == <<hpc, hloc, sent, hres>>

\* the variables of the calendar backend (src/backend.py)
bvars == <<_SESSIONS, bissued, bpc, bop, bresp, loggedout>>

vars == <<request, rpc, response, heap, tasks, _tasks_lock, issued, wpc, wloc,
          jpc, jn, jlast, jexc, disk, cpc, cop, cacc, cresp, seen, hpc, hloc, sent,
          hres, _SESSIONS, bissued, bpc, bop, bresp, loggedout>>

(* ------------------------- pages and titles ---------------------------- *)
\* A title is a sequence of characters.  The nine characters a file name may
\* not hold, and their full-width counterparts (named by code point).
InvalidChars == <<"\\", "/", ":", "*", "?", "\"", "<", ">", "|">>
FullWidthChars == <<"U+FF3C", "U+FF0F", "U+FF1A", "U+FF0A", "U+FF1F", "U+FF02",
                    "U+FF1C", "U+FF1E", "U+FF5C">>
\* a variant that puts an underscore for every invalid character
TranslateToUnderscore(s) ==
    [i \in 1..Len(s) |->
        IF \E k \in 1..Len(InvalidChars) : InvalidChars[k] = s[i] THEN "_" ELSE s[i]]
\* str.translate(str.maketrans(invalid_chars, full_width))
Translate(s) ==
    [i \in 1..Len(s) |->
        IF \E k \in 1..Len(InvalidChars) : InvalidChars[k] = s[i]
        THEN FullWidthChars[CHOOSE k \in 1..Len(InvalidChars) : InvalidChars[k] = s[i]]
        ELSE s[i]]

\* Python's None, for values that are otherwise a title
NoneT == <<None>>

\* The fallback title of the raw-HTML path
DefaultTitle == <<"LearnUs_Video">>

\* A parsed page: the src of its <source type="application/x-mpegURL"> (None
\* when there is no such element), whether <div id="vod_header"> exists, and
\* the text of its <h1> once the spans are removed (NoneT when there is none).
Page(source, vod_header, h1) == [source |-> source, vod_header |-> vod_header, h1 |-> h1]
Pages == { Page("https://cdn/index.m3u8", TRUE, <<"L", "/">>),
           Page(None, TRUE, <<"L", "/">>),
           Page("", TRUE, <<"L", "/">>),
           Page("https://cdn/index.m3u8", FALSE, NoneT),
           Page("https://cdn/index.m3u8", TRUE, <<>>) }

\* What an extraction call does: return a pair, or raise
Returned(a, b) == [kind |-> "return", a |-> a, b |-> b]
Raised(msg) == [kind |-> "raise", msg |-> msg]

\* extract_from_login has not returned
NoOutcome == [kind |-> "none"]

\* extract_from_html(html_content) -> (m3u8_url, video_title)
extract_from_html(page) ==
    LET video_title == IF page.vod_header /\ page.h1 # NoneT
                       THEN Translate(page.h1) ELSE DefaultTitle
    IN  IF page.source = None THEN Returned(None, NoneT)
        ELSE Returned(page.source, video_title)

\* extract_from_login, from the fetch of the target page on:
\* -> (video_title, m3u8_url)
ExtractFetched(page) ==
    IF page.source = None THEN Returned(NoneT, None)
    ELSE IF ~page.vod_header
         THEN Raised("'NoneType' object has no attribute 'find'")
    ELSE IF page.h1 = NoneT
         THEN Raised("'NoneType' object has no attribute 'find_all'")
    ELSE Returned(Translate(page.h1), page.source)

\* the hex strings a portal may send as keyModulus: empty, not hexadecimal,
\* and a modulus the cipher accepts
Moduli == {"", "zz", "c0ffee"}
\* int(km, 16): the text of the ValueError it raises, None when it returns
CipherError(km) ==
    IF km = "" THEN "invalid literal for int() with base 16: ''"
    ELSE IF km = "zz" THEN "invalid literal for int() with base 16: 'zz'"
    ELSE None

\* extract_from_login(username, password, url): the handshake fails on a
\* missing field (the sentinel), a request raises (no network), the modulus
\* does not parse, or the handshake succeeds and the portal serves some page
\* for url.
extract_from_login ==
    { Returned(NoneT, None), Raised("ConnectionError") }
        \cup { Raised(CipherError(km)) : km \in {k \in Moduli : CipherError(k) # None} }
        \cup { ExtractFetched(page) : page \in Pages }

\* `not video_title`: None and the empty title are falsy
FalsyTitle(t) == t = NoneT \/ t = <<>>

(* ----------------------------- requests -------------------------------- *)
\* JSON body of POST /api/login-download
LoginRequests ==
    [route : {"login"}, username : {None, "", "u"}, password : {None, "p"},
     url : {None, "url"}, mp4 : {"null", "false", "true"}, mp3 : {"false", "true"}]
\* request.files.get('html') when the form has no such part
NoFile == [filename |-> ""]
\* multipart form of POST /api/html-download
HtmlRequests ==
    [route : {"html"}, file : {NoFile} \cup Pages,
     mp4 : {None, "true"}, mp3 : {"false", "true"}]

\* do_mp4 / do_mp3 as the route computes them
DoFmt(req, fmt) ==
    LET raw == IF fmt = "mp4" THEN req.mp4 ELSE req.mp3
    IN  IF req.route = "login" THEN JsonBool(raw) ELSE FormBool(raw)

\* a variant that tests the required inputs only
MissingInputs(req) ==
    IF req.route = "login"
    THEN ~(PyTruthy(req.username) /\ PyTruthy(req.password) /\ PyTruthy(req.url))
    ELSE req.file = NoFile
\* the `if` that rejects a request: routes.py lines 24 and 36
MissingParameters(req) ==
    IF req.route = "login"
    THEN ~(PyTruthy(req.username) /\ PyTruthy(req.password) /\ PyTruthy(req.url))
         \/ ~(DoFmt(req, "mp4") \/ DoFmt(req, "mp3"))
    ELSE req.file = NoFile \/ ~(DoFmt(req, "mp4") \/ DoFmt(req, "mp3"))

Requests == DOMAIN request
Clients == DOMAIN cpc
\* the ids uuid4 draws from
Ids == 1..Cardinality(Requests)

NoResponse == [code |-> 0]
\* a caller of the backend that has sent no request
NoCall == [op |-> "none"]
Idle == [op |-> "none"]

\* a variant whose status starts as 'running'
DownloadTaskRunning(id) ==
    [id |-> id, status |-> "running", progress |-> <<>>, files |-> <<>>, error |-> None]
\* DownloadTask.__init__
DownloadTask(id) ==
    [id |-> id, status |-> "pending", progress |-> <<>>, files |-> <<>>, error |-> None]

\* the part of a record a status read reports
Contents(rec) ==
    [status |-> rec.status, progress |-> rec.progress,
     files |-> [i \in 1..Len(rec.files) |-> Basename(rec.files[i])],
     error |-> rec.error]

\* the record contents among xs that agree with the fields read so far
Agreeing(xs, acc) ==
    {x \in xs : \A k \in DOMAIN acc \ {"task"} : x[k] = acc[k]}

\* Every step that changes a record is seen by the reads in progress on it.
Observe ==
    seen' = [c \in Clients |->
                IF cacc[c].task \in DOMAIN heap' /\ cpc[c] \in {"status", "files", "error", "jsonify"}
                THEN seen[c] \cup Agreeing({Contents(heap'[cacc[c].task])}, cacc[c])
                ELSE seen[c]]

InitWith(reqs) ==
    /\ request = reqs
    /\ rpc = [r \in DOMAIN reqs |-> "route"]
    /\ response = [r \in DOMAIN reqs |-> NoResponse]
    /\ heap = <<>>
    /\ tasks = <<>>
    /\ _tasks_lock = NoThread
    /\ issued = {}
    /\ wpc = [o \in DOMAIN reqs |-> "unstarted"]
    /\ wloc = [o \in DOMAIN reqs |-> [m3u8_url |-> None, video_title |-> NoneT, exc |-> None]]
    /\ jpc = [o \in DOMAIN reqs |-> [f \in Fmts |-> "unstarted"]]
    /\ jn = [o \in DOMAIN reqs |-> [f \in Fmts |-> 0]]
    /\ jlast = [o \in DOMAIN reqs |-> [f \in Fmts |-> 0]]
    /\ jexc = [o \in DOMAIN reqs |-> [f \in Fmts |-> None]]
    /\ disk = {}
    /\ cpc = [c \in {1} |-> "idle"]
    /\ cop = [c \in {1} |-> Idle]
    /\ cacc = [c \in {1} |-> [task |-> 0]]
    /\ cresp = [c \in {1} |-> NoResponse]
    /\ seen = [c \in {1} |-> {}]
    /\ hpc = [o \in DOMAIN reqs |-> "idle"]
    /\ hloc = [o \in DOMAIN reqs |-> [res |-> <<>>, km |-> None]]
    /\ sent = [o \in DOMAIN reqs |-> <<>>]
    /\ hres = [o \in DOMAIN reqs |-> NoOutcome]
    /\ _SESSIONS = <<>>
    /\ bissued = {}
    /\ bpc = [b \in {1, 2} |-> "idle"]
    /\ bop = [b \in {1, 2} |-> NoCall]
    /\ bresp = [b \in {1, 2} |-> 0]
    /\ loggedout = {}

\* one submission, any request body
Init == \E req \in LoginRequests \cup HtmlRequests : InitWith([r \in {1} |-> req])

(* ------------------------ routes: submission --------------------------- *)
\* login_download / html_download, rejecting branch
Reject(r) ==
    /\ rpc[r] = "route"
    /\ MissingParameters(request[r])
    /\ response' = [response EXCEPT ![r] = [code |-> 400, error |-> "Missing parameters"]]
    /\ rpc' = [rpc EXCEPT ![r] = "done"]
    /\ UNCHANGED hvars
    /\ UNCHANGED bvars
    /\ UNCHANGED <<request, heap, tasks, _tasks_lock, issued, wpc, wloc, jpc, jn,
                   jlast, jexc, disk, cpc, cop, cacc, cresp, seen>>

\* login_download / html_download accept and call start_*_download, which
\* constructs the task: DownloadTask() with a fresh uuid4
Construct(r) ==
    /\ rpc[r] = "route"
    /\ ~MissingParameters(request[r])
    /\ \E id \in Ids \ issued :
        /\ heap' = (r :> DownloadTask(id)) @@ heap
        /\ issued' = issued \cup {id}
    /\ rpc' = [rpc EXCEPT ![r] = "register"]
    /\ UNCHANGED hvars
    /\ UNCHANGED bvars
    /\ UNCHANGED <<request, response, tasks, _tasks_lock, wpc, wloc, jpc, jn,
                   jlast, jexc, disk, cpc, cop, cacc, cresp, seen>>

\* _register_task: `with _tasks_lock:`
RegisterAcquire(r) ==
    /\ rpc[r] = "register"
    /\ _tasks_lock = NoThread
    /\ _tasks_lock' = <<"request", r>>
    /\ rpc' = [rpc EXCEPT ![r] = "insert"]
    /\ UNCHANGED hvars
    /\ UNCHANGED bvars
    /\ UNCHANGED <<request, response, heap, tasks, issued, wpc, wloc, jpc, jn,
                   jlast, jexc, disk, cpc, cop, cacc, cresp, seen>>

\* a variant that leaves the dict as it is
_register_task_skipped(reg, id, o) == reg
\* a variant that rebinds the dict: tasks = {task.id: task}
_register_task_rebinding(reg, id, o) == (id :> o)
\* the dict after tasks[task.id] = task
_register_task(reg, id, o) == (id :> o) @@ reg

\* _register_task: tasks[task.id] = task, and the lock is released
RegisterInsert(r) ==
    /\ rpc[r] = "insert"
    /\ tasks' = _register_task(tasks, heap[r].id, r)
    /\ _tasks_lock' = NoThread
    /\ rpc' = [rpc EXCEPT ![r] = "start_thread"]
    /\ UNCHANGED hvars
    /\ UNCHANGED bvars
    /\ UNCHANGED <<request, response, heap, issued, wpc, wloc, jpc, jn,
                   jlast, jexc, disk, cpc, cop, cacc, cresp, seen>>

\* thread.start() of the worker
StartWorker(r) ==
    /\ rpc[r] = "start_thread"
    /\ wpc' = [wpc EXCEPT ![r] = "start"]
    /\ rpc' = [rpc EXCEPT ![r] = "return"]
    /\ UNCHANGED hvars
    /\ UNCHANGED bvars
    /\ UNCHANGED <<request, response, heap, tasks, _tasks_lock, issued, wloc, jpc,
                   jn, jlast, jexc, disk, cpc, cop, cacc, cresp, seen>>

\* return task.id; the route answers {'task_id': task_id}
ReturnId(r) ==
    /\ rpc[r] = "return"
    /\ response' = [response EXCEPT ![r] = [code |-> 200, task_id |-> heap[r].id]]
    /\ rpc' = [rpc EXCEPT ![r] = "done"]
    /\ UNCHANGED hvars
    /\ UNCHANGED bvars
    /\ UNCHANGED <<request, heap, tasks, _tasks_lock, issued, wpc, wloc, jpc, jn,
                   jlast, jexc, disk, cpc, cop, cacc, cresp, seen>>

(* --------------------------- task worker ------------------------------- *)
\* a variant that treats the assignment of the current status as an invalid
\* transition
SetStatusStrict(rec, status) ==
    IF rec.status = status
    THEN [rec EXCEPT !.status = "failed", !.error = "invalid transition"]
    ELSE [rec EXCEPT !.status = status]
\* task.status = ...
SetStatus(rec, status) == [rec EXCEPT !.status = status]
\* a variant that keeps an error that is already set
SetErrorOnce(rec, error) == IF rec.error = None THEN [rec EXCEPT !.error = error] ELSE rec
\* task.error = ...
SetError(rec, error) == [rec EXCEPT !.error = error]

\* _run_login_download / _run_html_download: task.status = 'running'
Run(o) ==
    /\ wpc[o] = "start"
    /\ heap' = [heap EXCEPT ![o] = SetStatus(@, "running")]
    /\ wpc' = [wpc EXCEPT ![o] = "extract"]
    /\ Observe
    /\ UNCHANGED hvars
    /\ UNCHANGED bvars
    /\ UNCHANGED <<request, rpc, response, tasks, _tasks_lock, issued, wloc, jpc,
                   jn, jlast, jexc, disk, cpc, cop, cacc, cresp>>

\* the results the extraction call of the worker can have
Extraction(req) ==
    IF req.route = "login" THEN extract_from_login
    ELSE {extract_from_html(req.file)}

\* a variant that tests for None only: `if m3u8_url is None`
UnresolvedIsNone(req, res) ==
    IF req.route = "login"
    THEN res.a = NoneT \/ res.b = None
    ELSE res.a = None
\* the worker's test of the result: tasks.py lines 89 and 105
Unresolved(req, res) ==
    IF req.route = "login"
    THEN FalsyTitle(res.a) \/ ~PyTruthy(res.b)
    ELSE ~PyTruthy(res.a)

ResolutionError(req) ==
    IF req.route = "login"
    THEN "Failed to obtain video information. Check credentials or URL."
    ELSE "Unable to find m3u8 URL in HTML."

\* what follows the extraction call, up to the next access to the task:
\* status = 'failed' (the sentinel, or the except clause), or on to
\* _spawn_downloads
AfterExtraction(o, res) ==
    \/ /\ res.kind = "raise"
       /\ heap' = [heap EXCEPT ![o] = SetStatus(@, "failed")]
       /\ wloc' = [wloc EXCEPT ![o].exc = res.msg]
       /\ wpc' = [wpc EXCEPT ![o] = "set_error"]
       /\ Observe
    \/ /\ res.kind = "return"
       /\ Unresolved(request[o], res)
       /\ heap' = [heap EXCEPT ![o] = SetStatus(@, "failed")]
       /\ wloc' = [wloc EXCEPT ![o].exc = ResolutionError(request[o])]
       /\ wpc' = [wpc EXCEPT ![o] = "set_error"]
       /\ Observe
    \/ /\ res.kind = "return"
       /\ ~Unresolved(request[o], res)
       /\ wloc' = [wloc EXCEPT
              ![o].m3u8_url = IF request[o].route = "login" THEN res.b ELSE res.a,
              ![o].video_title = IF request[o].route = "login" THEN res.a ELSE res.b]
       /\ wpc' = [wpc EXCEPT ![o] = "spawn_mp4"]
       /\ UNCHANGED <<heap, seen>>

\* the extraction call, taken as one step with any of its results, and what
\* follows it
Extract(o) ==
    /\ wpc[o] = "extract"
    /\ \E res \in Extraction(request[o]) : AfterExtraction(o, res)
    /\ UNCHANGED hvars
    /\ UNCHANGED bvars
    /\ UNCHANGED <<request, rpc, response, tasks, _tasks_lock, issued, jpc, jn,
                   jlast, jexc, disk, cpc, cop, cacc, cresp>>

\* task.error = <message>, after status = 'failed'
RecordError(o) ==
    /\ wpc[o] = "set_error"
    /\ heap' = [heap EXCEPT ![o] = SetError(@, wloc[o].exc)]
    /\ wpc' = [wpc EXCEPT ![o] = "done"]
    /\ Observe
    /\ UNCHANGED hvars
    /\ UNCHANGED bvars
    /\ UNCHANGED <<request, rpc, response, tasks, _tasks_lock, issued, wloc, jpc,
                   jn, jlast, jexc, disk, cpc, cop, cacc, cresp>>

SpawnPc(fmt) == IF fmt = "mp4" THEN "spawn_mp4" ELSE "spawn_mp3"
AfterSpawn(fmt) == IF fmt = "mp4" THEN "spawn_mp3" ELSE "join"

\* _spawn_downloads: `if do_mp4:` / `if do_mp3:` t.start(), which starts the
\* sub-job or raises RuntimeError (caught by the worker's except clause)
Spawn(o, fmt) ==
    /\ wpc[o] = SpawnPc(fmt)
    /\ \/ /\ ~DoFmt(request[o], fmt)
          /\ wpc' = [wpc EXCEPT ![o] = AfterSpawn(fmt)]
          /\ UNCHANGED <<heap, wloc, jpc, seen>>
       \/ /\ DoFmt(request[o], fmt)
          /\ jpc' = [jpc EXCEPT ![o][fmt] = "run"]
          /\ wpc' = [wpc EXCEPT ![o] = AfterSpawn(fmt)]
          /\ UNCHANGED <<heap, wloc, seen>>
       \/ /\ DoFmt(request[o], fmt)
          /\ heap' = [heap EXCEPT ![o] = SetStatus(@, "failed")]
          /\ wloc' = [wloc EXCEPT ![o].exc = "can't start new thread"]
          /\ wpc' = [wpc EXCEPT ![o] = "set_error"]
          /\ Observe
          /\ UNCHANGED jpc
    /\ UNCHANGED hvars
    /\ UNCHANGED bvars
    /\ UNCHANGED <<request, rpc, response, tasks, _tasks_lock, issued, jn, jlast, jexc,
                   disk, cpc, cop, cacc, cresp>>

\* a variant that leaves the status as it is when there is no error
FinalStatusIfError(rec) == IF PyTruthy(rec.error) THEN "failed" ELSE rec.status
\* 'failed' if task.error else 'finished'
FinalStatus(rec) == IF PyTruthy(rec.error) THEN "failed" ELSE "finished"

\* _spawn_downloads: t.join() for every started thread, then
\* task.status = 'failed' if task.error else 'finished'
Join(o) ==
    /\ wpc[o] = "join"
    /\ \A f \in Fmts : jpc[o][f] # "run"
    /\ heap' = [heap EXCEPT ![o] = SetStatus(@, FinalStatus(@))]
    /\ wpc' = [wpc EXCEPT ![o] = "done"]
    /\ Observe
    /\ UNCHANGED hvars
    /\ UNCHANGED bvars
    /\ UNCHANGED <<request, rpc, response, tasks, _tasks_lock, issued, wloc, jpc,
                   jn, jlast, jexc, disk, cpc, cop, cacc, cresp>>

(* ----------------------------- sub-jobs -------------------------------- *)
\* the percentages a transcode run reports
Percents == {50, 100}
\* str(e) of what download_mp4 / download_mp3 can raise
ErrorTexts(fmt) == {"", IF fmt = "mp4" THEN "Error running command (mp4)"
                                       ELSE "Error running command (mp3)"}

\* a variant that rebinds the dict: task.progress = {file_name: progress}
_progress_callback_rebinding(rec, file_name, progress) ==
    [rec EXCEPT !.progress = (file_name :> progress)]
\* _progress_callback: task.progress[file_name] = progress
_progress_callback(rec, file_name, progress) ==
    [rec EXCEPT !.progress = (file_name :> progress) @@ @]

\* download_mp4 / download_mp3: one progress_cb(file, progress) of the loop
Progress(o, fmt) ==
    /\ jpc[o][fmt] = "run"
    /\ jn[o][fmt] < MaxEvents
    /\ \E p \in Percents :
        /\ p >= jlast[o][fmt]
        /\ heap' = [heap EXCEPT ![o] =
                        _progress_callback(@, FileName(wloc[o].video_title, fmt), p)]
        /\ jlast' = [jlast EXCEPT ![o][fmt] = p]
    /\ jn' = [jn EXCEPT ![o][fmt] = @ + 1]
    /\ Observe
    /\ UNCHANGED hvars
    /\ UNCHANGED bvars
    /\ UNCHANGED <<request, rpc, response, tasks, _tasks_lock, issued, wpc, wloc,
                   jpc, jexc, disk, cpc, cop, cacc, cresp>>

\* a variant that assigns the list: task.files = [path]
dl_assigned(rec, path) == [rec EXCEPT !.files = <<path>>]
\* _dl_wrapper, try branch: task.files.append(path)
dl_appended(rec, path) == [rec EXCEPT !.files = Append(@, path)]
\* a variant that also marks the task: task.status = 'failed'
dl_failed_marking(rec, msg) == [rec EXCEPT !.error = msg, !.status = "failed"]
\* _dl_wrapper, except branch: task.error = str(e)
dl_failed(rec, msg) == [rec EXCEPT !.error = msg]

\* the transcode run is over: its loop state is gone
Ended(o, fmt) ==
    /\ jn' = [jn EXCEPT ![o][fmt] = 0]
    /\ jlast' = [jlast EXCEPT ![o][fmt] = 0]

\* download_mp4 / download_mp3 returns the path of the file it wrote, and
\* _dl_wrapper appends it
Finish(o, fmt) ==
    /\ jpc[o][fmt] = "run"
    /\ LET path == PathJoin(DEFAULT_DOWNLOAD_FOLDER, FileName(wloc[o].video_title, fmt))
       IN  /\ disk' = disk \cup {path}
           /\ heap' = [heap EXCEPT ![o] = dl_appended(@, path)]
    /\ jpc' = [jpc EXCEPT ![o][fmt] = "done"]
    /\ Ended(o, fmt)
    /\ Observe
    /\ UNCHANGED hvars
    /\ UNCHANGED bvars
    /\ UNCHANGED <<request, rpc, response, tasks, _tasks_lock, issued, wpc, wloc,
                   jexc, cpc, cop, cacc, cresp>>

\* download_mp4 / download_mp3 raises, and _dl_wrapper records str(e)
Fail(o, fmt) ==
    /\ jpc[o][fmt] = "run"
    /\ \E msg \in ErrorTexts(fmt) :
        /\ heap' = [heap EXCEPT ![o] = dl_failed(@, msg)]
        /\ jexc' = [jexc EXCEPT ![o][fmt] = msg]
    /\ jpc' = [jpc EXCEPT ![o][fmt] = "failed"]
    /\ Ended(o, fmt)
    /\ Observe
    /\ UNCHANGED hvars
    /\ UNCHANGED bvars
    /\ UNCHANGED <<request, rpc, response, tasks, _tasks_lock, issued, wpc, wloc,
                   disk, cpc, cop, cacc, cresp>>

(* ------------------- routes: progress and download --------------------- *)
\* the file names a client may ask for
AskedNames ==
    {FileName(Translate(<<"L", "/">>), "mp4")}
        \cup UNION {{Basename(heap[o].files[i]) : i \in 1..Len(heap[o].files)} :
                        o \in DOMAIN heap}

\* the request enters get_task, which takes the lock
Enter(c, op) ==
    /\ cpc[c] = "idle"
    /\ _tasks_lock = NoThread
    /\ cop' = [cop EXCEPT ![c] = op]
    /\ _tasks_lock' = <<"client", c>>
    /\ cpc' = [cpc EXCEPT ![c] = "lookup"]
    /\ seen' = [seen EXCEPT ![c] = {}]
    /\ UNCHANGED hvars
    /\ UNCHANGED bvars
    /\ UNCHANGED <<request, rpc, response, heap, tasks, issued, wpc, wloc, jpc, jn,
                   jlast, jexc, disk, cacc, cresp>>

\* a client sends GET /api/progress/<task_id>
CallProgress(c) ==
    \E id \in Ids : Enter(c, [op |-> "progress", task_id |-> id])

\* a client sends GET /api/download/<task_id>/<filename>
CallDownload(c) ==
    \E id \in Ids, name \in AskedNames :
        Enter(c, [op |-> "download", task_id |-> id, filename |-> name])

\* tasks.get(task_id): the object, or 0 for None
get_task(reg, task_id) == IF task_id \in DOMAIN reg THEN reg[task_id] ELSE 0

NotFound(text) == [code |-> 404, error |-> text]

\* the route returns: the response is sent and the request's locals are gone
Respond(c, resp) ==
    /\ cresp' = [cresp EXCEPT ![c] = resp]
    /\ cpc' = [cpc EXCEPT ![c] = "idle"]
    /\ cop' = [cop EXCEPT ![c] = Idle]
    /\ cacc' = [cacc EXCEPT ![c] = [task |-> 0]]

\* get_task returns and releases the lock; `if not task` answers 404
Lookup(c) ==
    /\ cpc[c] = "lookup"
    /\ _tasks_lock' = NoThread
    /\ LET task == get_task(tasks, cop[c].task_id)
       IN  \/ /\ task = 0
              /\ Respond(c, IF cop[c].op = "progress" THEN NotFound("Invalid task id")
                            ELSE NotFound("Task not finished"))
              /\ UNCHANGED seen
           \/ /\ task # 0
              /\ cacc' = [cacc EXCEPT ![c] = [task |-> task]]
              /\ seen' = [seen EXCEPT ![c] =
                             IF cop[c].op = "progress" THEN {Contents(heap[task])} ELSE {}]
              /\ cpc' = [cpc EXCEPT ![c] = "status"]
              /\ UNCHANGED <<cop, cresp>>
    /\ UNCHANGED hvars
    /\ UNCHANGED bvars
    /\ UNCHANGED <<request, rpc, response, heap, tasks, issued, wpc, wloc, jpc, jn,
                   jlast, jexc, disk>>

\* to_dict reads self.status
ReadStatus(c) ==
    /\ cpc[c] = "status"
    /\ cop[c].op = "progress"
    /\ cacc' = [cacc EXCEPT ![c] = [task |-> @.task, status |-> heap[@.task].status]]
    /\ cpc' = [cpc EXCEPT ![c] = "files"]
    /\ seen' = [seen EXCEPT ![c] = Agreeing(@, cacc'[c])]
    /\ UNCHANGED hvars
    /\ UNCHANGED bvars
    /\ UNCHANGED <<request, rpc, response, heap, tasks, _tasks_lock, issued, wpc,
                   wloc, jpc, jn, jlast, jexc, disk, cop, cresp>>

\* to_dict reads self.files: [os.path.basename(f) for f in self.files]
ReadFiles(c) ==
    /\ cpc[c] = "files"
    /\ cacc' = [cacc EXCEPT ![c] =
                   [task |-> @.task, status |-> @.status,
                    files |-> Contents(heap[cacc[c].task]).files]]
    /\ cpc' = [cpc EXCEPT ![c] = "error"]
    /\ seen' = [seen EXCEPT ![c] = Agreeing(@, cacc'[c])]
    /\ UNCHANGED hvars
    /\ UNCHANGED bvars
    /\ UNCHANGED <<request, rpc, response, heap, tasks, _tasks_lock, issued, wpc,
                   wloc, jpc, jn, jlast, jexc, disk, cop, cresp>>

\* to_dict reads self.error
ReadError(c) ==
    /\ cpc[c] = "error"
    /\ cacc' = [cacc EXCEPT ![c] =
                   [task |-> @.task, status |-> @.status, files |-> @.files,
                    error |-> heap[cacc[c].task].error]]
    /\ cpc' = [cpc EXCEPT ![c] = "jsonify"]
    /\ seen' = [seen EXCEPT ![c] = Agreeing(@, cacc'[c])]
    /\ UNCHANGED hvars
    /\ UNCHANGED bvars
    /\ UNCHANGED <<request, rpc, response, heap, tasks, _tasks_lock, issued, wpc,
                   wloc, jpc, jn, jlast, jexc, disk, cop, cresp>>

\* the record contents a response reports
Snapshot(resp) ==
    [status |-> resp.status, progress |-> resp.progress, files |-> resp.files,
     error |-> resp.error]

\* jsonify serialises the dict: the progress dict was put in it by
\* reference, and its contents are read now
Jsonify(c) ==
    /\ cpc[c] = "jsonify"
    /\ Respond(c, [code |-> 200, id |-> heap[cacc[c].task].id,
                   status |-> cacc[c].status,
                   progress |-> heap[cacc[c].task].progress,
                   files |-> cacc[c].files, error |-> cacc[c].error])
    /\ seen' = [seen EXCEPT ![c] = @ \cap {Snapshot(cresp'[c])}]
    /\ UNCHANGED hvars
    /\ UNCHANGED bvars
    /\ UNCHANGED <<request, rpc, response, heap, tasks, _tasks_lock, issued, wpc,
                   wloc, jpc, jn, jlast, jexc, disk>>

\* a variant that refuses the tasks still at work only
NotFinishedAtWork(rec) == rec.status \in {"pending", "running"}
\* download_file: task.status != 'finished'
NotFinished(rec) == rec.status # "finished"

\* download_file tests task.status != 'finished'
TestFinished(c) ==
    /\ cpc[c] = "status"
    /\ cop[c].op = "download"
    /\ \/ /\ NotFinished(heap[cacc[c].task])
          /\ Respond(c, NotFound("Task not finished"))
       \/ /\ ~NotFinished(heap[cacc[c].task])
          /\ cpc' = [cpc EXCEPT ![c] = "send"]
          /\ UNCHANGED <<cop, cacc, cresp>>
    /\ UNCHANGED hvars
    /\ UNCHANGED bvars
    /\ UNCHANGED <<request, rpc, response, heap, tasks, _tasks_lock, issued, wpc,
                   wloc, jpc, jn, jlast, jexc, disk, seen>>

\* the first path of task.files whose basename is filename, <<>> if none
Match(files, filename) ==
    LET hits == {i \in 1..Len(files) : Basename(files[i]) = filename}
    IN  IF hits = {} THEN <<>>
        ELSE files[CHOOSE i \in hits : \A j \in hits : i <= j]

\* download_file: the loop over task.files, send_from_directory (404 when
\* the file is gone), or abort(404) when no path matches
Send(c) ==
    /\ cpc[c] = "send"
    /\ LET path == Match(heap[cacc[c].task].files, cop[c].filename)
       IN  \/ /\ path = <<>>
              /\ Respond(c, NotFound("Not Found"))
           \/ /\ path # <<>>
              /\ cresp' = [cresp EXCEPT ![c] =
                              IF path \in disk THEN [code |-> 200, file |-> path]
                              ELSE NotFound("Not Found")]
              /\ cacc' = [cacc EXCEPT ![c] = [task |-> @.task, path |-> path]]
              /\ cpc' = [cpc EXCEPT ![c] = "remove"]
              /\ UNCHANGED cop
    /\ UNCHANGED hvars
    /\ UNCHANGED bvars
    /\ UNCHANGED <<request, rpc, response, heap, tasks, _tasks_lock, issued, wpc,
                   wloc, jpc, jn, jlast, jexc, disk, seen>>

\* remove_file, after the request: os.remove(path), failures ignored
Remove(c) ==
    /\ cpc[c] = "remove"
    /\ disk' = disk \ {cacc[c].path}
    /\ Respond(c, cresp[c])
    /\ UNCHANGED hvars
    /\ UNCHANGED bvars
    /\ UNCHANGED <<request, rpc, response, heap, tasks, _tasks_lock, issued, wpc,
                   wloc, jpc, jn, jlast, jexc, seen>>

(* --------------------------- the handshake ----------------------------- *)
\* extract_from_login run step by step by the worker of a login submission.
\* One step is one HTTP exchange of the session and the parsing of its
\* response.

\* a url: its origin and its path
Url(origin, path) == <<origin, path>>
Origin(url) == url[1]
Portal == "https://ys.learnus.org"
Sso == "https://infra.yonsei.ac.kr"

\* the endpoints, in the order of their first use
CoursemosLogin == Url(Portal, "/passni/sso/coursemosLogin.php")
PmSSOService == Url(Sso, "/sso/PmSSOService")
PmSSOAuthService == Url(Sso, "/sso/PmSSOAuthService")
SpLoginData == Url(Portal, "/passni/sso/spLoginData.php")
SpLoginProcess == Url(Portal, "/passni/spLoginProcess.php")

\* the Referer of a request sent without that header
NoHeader == <<None>>
\* post_request(u, headers, data), with headers['Referer'] = referer
Post(url, referer) == [method |-> "POST", url |-> url, referer |-> referer]
\* session.get(u): no headers are passed
Get(url) == [method |-> "GET", url |-> url, referer |-> NoHeader]

\* the value of an <input> of a response: None when the element is absent
Values == {None, "", "v"}
\* get_value_from_input(res_text, input_name)
get_value_from_input(res, input_name) == res[input_name]
\* a variant that gives up only when every element is absent
NoValuesAtAll(res, input_names) == \A name \in input_names : res[name] = None
\* get_multiple_values(res_text, input_names) returns None: an element is absent
NoValues(res, input_names) == \E name \in input_names : res[name] = None

\* the responses a portal may give to the requests of steps 1 and 3, 2, 4
S1Responses == [{"S1"} -> Values]
ChallengeResponses ==
    {[ssoChallenge |-> sc, keyModulus |-> km] :
        sc \in {None, "v"}, km \in {None} \cup Moduli}
AuthFields == {"E3", "E4", "S2", "CLTID"}
AuthResponses ==
    {[name \in AuthFields |-> IF name = absent THEN None ELSE "v"] :
        absent \in AuthFields \cup {"-"}}

\* `return None, None`
Sentinel == Returned(NoneT, None)

\* the session sends a request
Request(o, req) == sent' = [sent EXCEPT ![o] = Append(@, req)]
\* extract_from_login is over: it returns or raises res
Over(o, res) ==
    /\ hres' = [hres EXCEPT ![o] = res]
    /\ hpc' = [hpc EXCEPT ![o] = "over"]
\* res = post_request(...) / res = session.get(url)
Receive(o, res) == hloc' = [hloc EXCEPT ![o].res = res]
\* extract_from_login goes on to the next request
Goto(o, pc) ==
    /\ hpc' = [hpc EXCEPT ![o] = pc]
    /\ UNCHANGED hres

\* the variables of the routes, the workers, the sub-jobs and the clients
tvars == <<request, rpc, response, heap, tasks, _tasks_lock, issued, wpc, wloc,
           jpc, jn, jlast, jexc, disk, cpc, cop, cacc, cresp, seen>>

\* the worker of o is inside extract_from_login, at position pc
At(o, pc) == wpc[o] = "extract" /\ request[o].route = "login" /\ hpc[o] = pc

\* step 1: post the credentials to the login endpoint, extract S1
HandshakeStep1(o) ==
    /\ At(o, "idle")
    /\ Request(o, Post(CoursemosLogin, Url(Portal, "/login/method/sso.php")))
    /\ \/ Over(o, Raised("ConnectionError")) /\ UNCHANGED hloc
       \/ \E res \in S1Responses :
             /\ Receive(o, res)
             /\ IF ~PyTruthy(get_value_from_input(res, "S1"))
                THEN Over(o, Sentinel) ELSE Goto(o, "step2")
    /\ UNCHANGED tvars
    /\ UNCHANGED bvars

\* step 2: post S1 to the SSO service, extract ssoChallenge and keyModulus
HandshakeStep2(o) ==
    /\ At(o, "step2")
    /\ Request(o, Post(PmSSOService, Url(Portal, "/")))
    /\ \/ Over(o, Raised("ConnectionError")) /\ UNCHANGED hloc
       \/ \E res \in ChallengeResponses :
             IF NoValues(res, {"ssoChallenge", "keyModulus"})
             THEN Over(o, Sentinel) /\ Receive(o, res)
             ELSE /\ Goto(o, "step3")
                  /\ hloc' = [hloc EXCEPT ![o].res = res, ![o].km = res.keyModulus]
    /\ UNCHANGED tvars
    /\ UNCHANGED bvars

\* step 3: build the key from keyModulus and encrypt, post E2 to the login
\* endpoint, extract the second S1
HandshakeStep3(o) ==
    /\ At(o, "step3")
    /\ \/ /\ CipherError(hloc[o].km) # None
          /\ Over(o, Raised(CipherError(hloc[o].km)))
          /\ UNCHANGED <<sent, hloc>>
       \/ /\ CipherError(hloc[o].km) = None
          /\ Request(o, Post(CoursemosLogin, Url(Sso, "/")))
          /\ \/ Over(o, Raised("ConnectionError")) /\ UNCHANGED hloc
             \/ \E res \in S1Responses :
                   /\ Receive(o, res)
                   /\ IF ~PyTruthy(get_value_from_input(res, "S1"))
                      THEN Over(o, Sentinel) ELSE Goto(o, "step4")
    /\ UNCHANGED tvars
    /\ UNCHANGED bvars

\* step 4: post the second S1 to the SSO auth service, extract E3, E4, S2
\* and CLTID
HandshakeStep4(o) ==
    /\ At(o, "step4")
    /\ Request(o, Post(PmSSOAuthService, Url(Portal, "/")))
    /\ \/ Over(o, Raised("ConnectionError")) /\ UNCHANGED hloc
       \/ \E res \in AuthResponses :
             /\ Receive(o, res)
             /\ IF NoValues(res, AuthFields)
                THEN Over(o, Sentinel) ELSE Goto(o, "step5")
    /\ UNCHANGED tvars
    /\ UNCHANGED bvars

\* step 5: post E3, E4, S2 and CLTID to the login-data endpoint; the
\* response is not read
HandshakeStep5(o) ==
    /\ At(o, "step5")
    /\ Request(o, Post(SpLoginData, Url(Sso, "/")))
    /\ \/ Over(o, Raised("ConnectionError"))
       \/ Goto(o, "finalize")
    /\ UNCHANGED <<hloc, tvars>>
    /\ UNCHANGED bvars

\* step 5, the navigation that finalizes the session:
\* session.get('.../spLoginProcess.php')
Finalize(o) ==
    /\ At(o, "finalize")
    /\ Request(o, Get(SpLoginProcess))
    /\ \/ Over(o, Raised("ConnectionError"))
       \/ Goto(o, "fetch")
    /\ UNCHANGED <<hloc, tvars>>
    /\ UNCHANGED bvars

\* the url of the lecture page the submission names
Target(url) == Url("<target>", url)

\* session.get(url) and the parsing of the page
FetchPage(o) ==
    /\ At(o, "fetch")
    /\ Request(o, Get(Target(request[o].url)))
    /\ \/ Over(o, Raised("ConnectionError")) /\ UNCHANGED hloc
       \/ \E page \in Pages : Receive(o, page) /\ Over(o, ExtractFetched(page))
    /\ UNCHANGED tvars
    /\ UNCHANGED bvars

\* extract_from_login is over and the worker goes on with its result
Resume(o) ==
    /\ At(o, "over")
    /\ AfterExtraction(o, hres[o])
    /\ UNCHANGED hvars
    /\ UNCHANGED bvars
    /\ UNCHANGED <<request, rpc, response, tasks, _tasks_lock, issued, jpc, jn,
                   jlast, jexc, disk, cpc, cop, cacc, cresp>>

(* -------------------------- specifications ----------------------------- *)
\* the submission routes, the task workers and their sub-jobs
NextTask ==
    \/ \E r \in Requests : Reject(r)
    \/ \E r \in Requests : Construct(r)
    \/ \E r \in Requests : RegisterAcquire(r)
    \/ \E r \in Requests : RegisterInsert(r)
    \/ \E r \in Requests : StartWorker(r)
    \/ \E r \in Requests : ReturnId(r)
    \/ \E o \in Requests : Run(o)
    \/ \E o \in Requests : Extract(o)
    \/ \E o \in Requests : RecordError(o)
    \/ \E o \in Requests, f \in Fmts : Spawn(o, f)
    \/ \E o \in Requests : Join(o)
    \/ \E o \in Requests, f \in Fmts : Progress(o, f)
    \/ \E o \in Requests, f \in Fmts : Finish(o, f)
    \/ \E o \in Requests, f \in Fmts : Fail(o, f)

\* the progress route
NextProgress ==
    \/ \E c \in Clients : CallProgress(c)
    \/ \E c \in Clients : Lookup(c)
    \/ \E c \in Clients : ReadStatus(c)
    \/ \E c \in Clients : ReadFiles(c)
    \/ \E c \in Clients : ReadError(c)
    \/ \E c \in Clients : Jsonify(c)

\* the download route
NextDownload ==
    \/ \E c \in Clients : CallDownload(c)
    \/ \E c \in Clients : Lookup(c)
    \/ \E c \in Clients : TestFinished(c)
    \/ \E c \in Clients : Send(c)
    \/ \E c \in Clients : Remove(c)

\* login submissions: for both formats, for mp4 alone, and without a url
LoginBody(url, mp3) ==
    [route |-> "login", username |-> "u", password |-> "p", url |-> url,
     mp4 |-> "true", mp3 |-> mp3]
PolledBodies == {LoginBody("url", "true"), LoginBody("url", "false"), LoginBody(None, "true")}

\* one login submission, and one client that polls its progress
Spec ==
    /\ \E req \in PolledBodies : InitWith([r \in {1} |-> req])
    /\ [][NextTask \/ NextProgress]_vars

\* one submission with any request body, no client
SpecTask == Init /\ [][NextTask]_vars

\* an upload of the page of a lecture, for mp4 alone
HtmlBody(page) == [route |-> "html", file |-> page, mp4 |-> "true", mp3 |-> "false"]
ConcurrentBodies ==
    {HtmlBody(Page("https://cdn/index.m3u8", TRUE, <<"L", "/">>)),
     HtmlBody(Page(None, TRUE, <<"L", "/">>)), HtmlBody(NoFile)}

\* concurrent submissions, and one client that downloads
SpecMulti ==
    /\ \E reqs \in [1..MaxRequests -> ConcurrentBodies] : InitWith(reqs)
    /\ [][NextTask \/ NextDownload]_vars

\* uploads whose page has no manifest source, and uploads without a file
UnresolvedBodies == {HtmlBody(Page(None, TRUE, <<"L", "/">>)), HtmlBody(NoFile)}

\* the submission routes and the workers up to the failed resolution
NextSubmit ==
    \/ \E r \in Requests : Reject(r)
    \/ \E r \in Requests : Construct(r)
    \/ \E r \in Requests : RegisterAcquire(r)
    \/ \E r \in Requests : RegisterInsert(r)
    \/ \E r \in Requests : StartWorker(r)
    \/ \E r \in Requests : ReturnId(r)
    \/ \E o \in Requests : Run(o)
    \/ \E o \in Requests : Extract(o)
    \/ \E o \in Requests : RecordError(o)

\* the download route up to its test of the task's status
NextStatusTest ==
    \/ \E c \in Clients : CallDownload(c)
    \/ \E c \in Clients : Lookup(c)
    \/ \E c \in Clients : TestFinished(c)

\* concurrent submissions of pages that do not resolve, and one client that
\* asks for a file of a task
SpecSubmit ==
    /\ \E reqs \in [1..MaxRequests -> UnresolvedBodies] : InitWith(reqs)
    /\ [][NextSubmit \/ NextStatusTest]_vars

\* one login submission for both formats, with or without a url, and one
\* client that downloads
SpecDownload ==
    /\ \E url \in {"url", None} : InitWith([r \in {1} |-> LoginBody(url, "true")])
    /\ [][NextTask \/ NextDownload]_vars

\* a login submission worked step by step: the routes, the worker with the
\* handshake, and the sub-jobs
NextHandshake ==
    \/ \E r \in Requests : Reject(r)
    \/ \E r \in Requests : Construct(r)
    \/ \E r \in Requests : RegisterAcquire(r)
    \/ \E r \in Requests : RegisterInsert(r)
    \/ \E r \in Requests : StartWorker(r)
    \/ \E r \in Requests : ReturnId(r)
    \/ \E o \in Requests : Run(o)
    \/ \E o \in Requests : HandshakeStep1(o)
    \/ \E o \in Requests : HandshakeStep2(o)
    \/ \E o \in Requests : HandshakeStep3(o)
    \/ \E o \in Requests : HandshakeStep4(o)
    \/ \E o \in Requests : HandshakeStep5(o)
    \/ \E o \in Requests : Finalize(o)
    \/ \E o \in Requests : FetchPage(o)
    \/ \E o \in Requests : Resume(o)
    \/ \E o \in Requests : RecordError(o)
    \/ \E o \in Requests, f \in Fmts : Spawn(o, f)
    \/ \E o \in Requests : Join(o)
    \/ \E o \in Requests, f \in Fmts : Progress(o, f)
    \/ \E o \in Requests, f \in Fmts : Finish(o, f)
    \/ \E o \in Requests, f \in Fmts : Fail(o, f)

\* one login submission, its handshake taken one exchange at a time
SpecHandshake ==
    /\ \E req \in PolledBodies : InitWith([r \in {1} |-> req])
    /\ [][NextHandshake]_vars

\* the submission of the specifications that have one
Single == {1}

\* Each thread that can take a step eventually takes one: the request
\* handler, the worker (a daemon thread of a server that keeps running) and
\* each sub-job, whose transcode run returns or raises after finitely many
\* progress events.
Fairness ==
    \A o \in Single :
        /\ WF_vars(Reject(o) \/ Construct(o) \/ RegisterAcquire(o) \/ RegisterInsert(o)
                       \/ StartWorker(o) \/ ReturnId(o))
        /\ WF_vars(Run(o) \/ Extract(o) \/ RecordError(o) \/ Join(o)
                       \/ (\E f \in Fmts : Spawn(o, f)))
        /\ \A f \in Fmts : WF_vars(Progress(o, f) \/ Finish(o, f) \/ Fail(o, f))

\* one submission with any request body, under fair scheduling
SpecFair == Init /\ [][NextTask]_vars /\ Fairness

\* the characters of the titles drawn: three invalid ones, their
\* full-width counterparts, and a letter
TitleChars == {"L", "/", "U+FF0F", ":", "U+FF1A", "|", "U+FF5C"}
\* the texts an <h1> may hold
Titles == UNION {[1..n -> TitleChars] : n \in 0..MaxTitle}
\* uploads of a lecture page with any of these titles, and one without file
TitledBodies ==
    {HtmlBody(Page("https://cdn/index.m3u8", TRUE, h1)) : h1 \in Titles}
        \cup {HtmlBody(NoFile)}

\* one upload, its title any of Titles
SpecTitles ==
    /\ \E req \in TitledBodies : InitWith([r \in {1} |-> req])
    /\ [][NextTask]_vars

(* ------------------------------ claims --------------------------------- *)
\* the path sub-job f of task o writes
JobPath(o, f) == PathJoin(DEFAULT_DOWNLOAD_FOLDER, FileName(wloc[o].video_title, f))
\* the worker went through _spawn_downloads and set the final status
Completed(o) == wpc[o] = "done" /\ wloc[o].exc = None

\* C1: the status of a task only moves pending -> running -> finished or
\* pending -> running -> failed; no step of the worker or of a sub-job moves
\* it backwards or out of finished / failed.
C1_StatusMonotonic ==
    [][\A o \in DOMAIN heap :
          \/ heap'[o].status = heap[o].status
          \/ <<heap[o].status, heap'[o].status>> \in
                {<<"pending", "running">>, <<"running", "finished">>,
                 <<"running", "failed">>}]_vars

\* a task went pending -> running -> failed while one of its sub-jobs,
\* started before, has ended since
C1_Witness ==
    \E o \in DOMAIN heap :
        /\ heap[o].status = "failed"
        /\ wpc[o] = "done"
        /\ \E f \in Fmts : jpc[o][f] \in {"done", "failed"}

\* C2: once the stream is resolved and every launched sub-job has ended, the
\* final status is finished if and only if no sub-job raised, and failed if
\* one did, whatever the text of the error.
C2_FinalStatusIffNoError ==
    \A o \in DOMAIN heap :
        Completed(o) =>
            LET raised == \E f \in Fmts : jpc[o][f] = "failed"
            IN  /\ heap[o].status = "finished" <=> ~raised
                /\ raised => heap[o].status = "failed"

\* C3: with both formats requested, when the mp3 sub-job fails and the mp4
\* sub-job succeeds the task ends failed, with the mp4 path as its only file
\* and the message of the mp3 sub-job as its error.
C3_OneFailureKeepsSibling ==
    \A o \in DOMAIN heap :
        (Completed(o) /\ jpc[o]["mp3"] = "failed" /\ jpc[o]["mp4"] = "done") =>
            /\ heap[o].status = "failed"
            /\ heap[o].files = <<JobPath(o, "mp4")>>
            /\ heap[o].error = jexc[o]["mp3"]

\* C4: every step that changes a task record is taken by a thread (the
\* worker of the task or one of its sub-jobs) that holds _tasks_lock.
C4_MutationsUnderLock ==
    [][\A o \in DOMAIN heap :
          heap'[o] # heap[o] =>
              _tasks_lock \in {<<"worker", o>>} \cup {<<"job", o, f>> : f \in Fmts}]_vars

\* a response of the progress route
IsStatus(resp) == resp.code = 200 /\ "progress" \in DOMAIN resp

\* C5: what a status read returns (status, progress, files, error) is what
\* the record held at one instant between get_task and the response.
C5_ConsistentSnapshot ==
    \A c \in Clients :
        (cpc[c] = "idle" /\ IsStatus(cresp[c])) =>
            Snapshot(cresp[c]) \in seen[c]

\* q has every key of p, with a value at least as large
Grows(p, q) == \A k \in DOMAIN p : k \in DOMAIN q /\ q[k] >= p[k]

\* C6: the progress map of a task only gains keys or raises values, and so
\* do two successive observations of it by a poller.
C6_ProgressGrows ==
    [][/\ \A o \in DOMAIN heap : Grows(heap[o].progress, heap'[o].progress)
       /\ \A c \in Clients :
             (IsStatus(cresp[c]) /\ IsStatus(cresp'[c]) /\ cresp[c].id = cresp'[c].id)
                 => Grows(cresp[c].progress, cresp'[c].progress)]_vars

\* a poller holds an observation with both artifacts in it, and one of them
\* has been raised since
C6_Witness ==
    \E c \in Clients, o \in DOMAIN heap :
        /\ IsStatus(cresp[c])
        /\ cresp[c].id = heap[o].id
        /\ Cardinality(DOMAIN cresp[c].progress) = 2
        /\ \E k \in DOMAIN cresp[c].progress : heap[o].progress[k] > cresp[c].progress[k]

\* every entry of files is the path of a sub-job that returned, once each
FilesFromReturned ==
    \A o \in DOMAIN heap :
        /\ \A i \in 1..Len(heap[o].files) :
              \E f \in Fmts : jpc[o][f] = "done" /\ heap[o].files[i] = JobPath(o, f)
        /\ \A f \in Fmts : jpc[o][f] = "failed" =>
              \A i \in 1..Len(heap[o].files) : heap[o].files[i] # JobPath(o, f)

\* C7: files only grows, by the path of a sub-job whose transcode call
\* returned; a sub-job that raised contributes no entry.
C7_FilesGrowOnSuccess ==
    [][/\ \A o \in DOMAIN heap :
             \/ heap'[o].files = heap[o].files
             \/ \E f \in Fmts :
                   /\ jpc[o][f] = "run" /\ jpc'[o][f] = "done"
                   /\ heap'[o].files = Append(heap[o].files, JobPath(o, f))
       /\ FilesFromReturned']_vars

\* one sub-job returned after the other had raised: files holds one path
C7_Witness ==
    \E o \in DOMAIN heap :
        /\ jpc[o]["mp3"] = "failed" /\ jpc[o]["mp4"] = "done"
        /\ heap[o].files = <<JobPath(o, "mp4")>>

\* a response has handed task id to its submitter
Handed(id) == \E r \in Requests : response[r].code = 200 /\ response[r].task_id = id

\* C8: concurrent submissions get pairwise distinct ids; a record enters the
\* registry while it is pending, before its worker is started and before
\* its id is returned, so that get_task on a returned id finds the record.
C8_RegisteredBeforeStart ==
    [][/\ \A r1, r2 \in DOMAIN heap' : r1 # r2 => heap'[r1].id # heap'[r2].id
       /\ \A id \in DOMAIN tasks' \ DOMAIN tasks :
             /\ heap[tasks'[id]].status = "pending"
             /\ wpc[tasks'[id]] = "unstarted"
             /\ response[tasks'[id]] = NoResponse
       /\ \A r \in Requests :
             (wpc'[r] # "unstarted" \/ response'[r].code = 200) =>
                 /\ r \in DOMAIN heap'
                 /\ get_task(tasks', heap'[r].id) = r
       /\ \A c \in Clients :
             (cpc[c] = "lookup" /\ cpc'[c] # "lookup" /\ Handed(cop[c].task_id)) =>
                 /\ cpc'[c] = "status"
                 /\ cacc'[c].task # 0
                 /\ heap[cacc'[c].task].id = cop[c].task_id]_vars

\* get_task has found a record whose id was returned, while the other
\* submission is between its construction and its return
C8_Witness ==
    \E c \in Clients, r \in Requests :
        /\ cpc[c] = "status"
        /\ Handed(cop[c].task_id)
        /\ r # cacc[c].task
        /\ rpc[r] \in {"register", "insert", "start_thread", "return"}

\* C9: a registered record is never removed from the registry and its id is
\* never bound to another record: get_task(id) keeps returning it.
C9_RegistryStable ==
    [][\A id \in DOMAIN tasks :
          /\ get_task(tasks', id) = tasks[id]
          /\ heap'[tasks[id]].id = id]_vars

\* two records are registered; one is finished and its file has been
\* downloaded and deleted
C9_Witness ==
    /\ Cardinality(DOMAIN tasks) = 2
    /\ \E id \in DOMAIN tasks, c \in Clients :
          /\ heap[tasks[id]].status = "finished"
          /\ Len(heap[tasks[id]].files) = 1
          /\ heap[tasks[id]].files[1] \notin disk
          /\ cpc[c] = "idle"
          /\ cresp[c] = [code |-> 200, file |-> heap[tasks[id]].files[1]]

\* the request asks for the format
Asked(req, fmt) == (IF fmt = "mp4" THEN req.mp4 ELSE req.mp3) = "true"
\* the request lacks a required input
LacksInput(req) ==
    IF req.route = "login"
    THEN \E v \in {req.username, req.password, req.url} : v \in {None, ""}
    ELSE req.file = NoFile
Invalid(req) == LacksInput(req) \/ (~Asked(req, "mp4") /\ ~Asked(req, "mp3"))

\* C10: a submission with an empty format set, or without a required input,
\* is answered 400 'Missing parameters' by the route itself; no task record
\* is created or registered for it and no worker is started.
C10_InvalidRejected ==
    \A r \in Requests :
        Invalid(request[r]) =>
            /\ rpc[r] \in {"route", "done"}
            /\ rpc[r] = "done" =>
                  response[r] = [code |-> 400, error |-> "Missing parameters"]
            /\ r \notin DOMAIN heap
            /\ \A id \in DOMAIN tasks : tasks[id] # r
            /\ wpc[r] = "unstarted"

\* a request that has every input and asks for no format was answered 400
C10_Witness ==
    \E r \in Requests :
        /\ ~LacksInput(request[r])
        /\ ~Asked(request[r], "mp4") /\ ~Asked(request[r], "mp3")
        /\ response[r].code = 400

\* the extraction of worker o has returned without a manifest url (or, on
\* the login path, without a title)
ResolutionFailed(o) ==
    /\ wpc[o] \notin {"unstarted", "start", "extract"}
    /\ IF request[o].route = "login"
       THEN wloc[o].exc = ResolutionError(request[o])
       ELSE ~PyTruthy(request[o].file.source)

\* C11: when the resolution of the stream fails, the task is failed, and once
\* its worker is over it carries the non-empty message of that failure; no
\* sub-job is ever launched for it and its progress and files stay empty.
C11_ResolutionFailure ==
    \A o \in DOMAIN heap :
        ResolutionFailed(o) =>
            /\ heap[o].status = "failed"
            /\ wpc[o] \in {"set_error", "done"}
            /\ wpc[o] = "done" =>
                  /\ heap[o].error = ResolutionError(request[o])
                  /\ PyTruthy(heap[o].error)
            /\ \A f \in Fmts : jpc[o][f] = "unstarted"
            /\ heap[o].progress = <<>>
            /\ heap[o].files = <<>>

\* the worker of an upload whose source element has an empty src is over
C11_Witness ==
    \E o \in DOMAIN heap :
        /\ request[o].route = "html"
        /\ request[o].file.source = ""
        /\ wpc[o] = "done"
        /\ heap[o].error = "Unable to find m3u8 URL in HTML."

\* the worker of o holds the manifest url its extraction returned
Resolved(o) == PyTruthy(wloc[o].m3u8_url)

\* C12 as stated: a poller observes status=running only for a task whose
\* resolution has succeeded.
C12_RunningOnlyResolved ==
    \A c \in Clients, o \in DOMAIN heap :
        (IsStatus(cresp[c]) /\ cresp[c].id = heap[o].id /\ cresp[c].status = "running")
            => Resolved(o)

\* C12, amended: the status becomes running in the first step of the worker,
\* before the resolution is attempted, and at no other step; a sub-job is
\* launched only once the resolution has succeeded, while the status is
\* running.
C12_RunningFromWorkerStart ==
    [][\A o \in DOMAIN heap' :
          /\ (heap'[o].status = "running" /\ (o \notin DOMAIN heap \/ heap[o].status # "running"))
                => (wpc[o] = "start" /\ wpc'[o] = "extract" /\ ~Resolved(o))
          /\ \A f \in Fmts :
                (jpc[o][f] = "unstarted" /\ jpc'[o][f] = "run")
                    => (Resolved(o) /\ heap[o].status = "running")]_vars

\* a poller has observed status=running while the extraction call of the
\* task had not returned
C12_Witness ==
    \E c \in Clients, o \in DOMAIN heap :
        /\ IsStatus(cresp[c]) /\ cresp[c].id = heap[o].id
        /\ cresp[c].status = "running"
        /\ wpc[o] = "extract"

\* the download request of client c is answered not-found in this step, and
\* no file is deleted
Refused(c) ==
    /\ cresp'[c] = NotFound("Task not finished")
    /\ cpc'[c] = "idle"
    /\ disk' = disk

\* C13: a download request for an unknown id, or for a task that is not
\* finished when its status is tested, is answered not-found; a file is
\* transferred or deleted only for a task that is finished.
C13_DownloadOnlyFinished ==
    [][/\ \A c \in Clients :
             /\ (/\ cpc[c] = "lookup" /\ cpc'[c] # "lookup"
                 /\ cop[c].op = "download"
                 /\ cop[c].task_id \notin DOMAIN tasks) => Refused(c)
             /\ (/\ cpc[c] = "status" /\ cpc'[c] # "status"
                 /\ cop[c].op = "download"
                 /\ heap[cacc[c].task].status # "finished") => Refused(c)
             /\ cpc'[c] \in {"send", "remove"} =>
                   heap'[cacc'[c].task].status = "finished"
             /\ (cresp'[c] # cresp[c] /\ cresp'[c].code = 200) =>
                   heap[cacc[c].task].status = "finished"
       /\ disk \ disk' # {} =>
             \E c \in Clients :
                 /\ cpc[c] = "remove"
                 /\ heap[cacc[c].task].status = "finished"]_vars

\* a client was answered not-found, and the task is failed with the file one
\* of its sub-jobs produced still in its files list and on disk
C13_Witness ==
    \E c \in Clients, o \in DOMAIN heap :
        /\ cpc[c] = "idle"
        /\ cresp[c] = NotFound("Task not finished")
        /\ heap[o].status = "failed" /\ wpc[o] = "done"
        /\ Len(heap[o].files) = 1
        /\ heap[o].files[1] \in disk

\* the requests of a complete handshake for url, by method and endpoint,
\* the fetch of the page last
Exchanges(url) ==
    << <<"POST", CoursemosLogin>>, <<"POST", PmSSOService>>,
       <<"POST", CoursemosLogin>>, <<"POST", PmSSOAuthService>>,
       <<"POST", SpLoginData>>, <<"GET", SpLoginProcess>>, <<"GET", Target(url)>> >>
\* the requests sent are the first ones of a complete handshake, in order
InOrder(reqs, url) ==
    /\ Len(reqs) <= Len(Exchanges(url))
    /\ \A i \in 1..Len(reqs) : <<reqs[i].method, reqs[i].url>> = Exchanges(url)[i]
\* a response without one of its <input> elements
LacksField(res) == \E name \in DOMAIN res : res[name] = None

\* C14: the session sends its requests in the order of steps 1 to 5, one at
\* a time; when the response of one of the first four lacks a required
\* field, extract_from_login returns the sentinel at once, and after it has
\* returned no request is sent: the later steps and the fetch of the page
\* never happen.
C14_StopsAtFirstMissingField ==
    [][\A o \in Requests :
          /\ InOrder(sent'[o], request[o].url)
          /\ Len(sent'[o]) <= Len(sent[o]) + 1
          /\ (/\ hloc'[o].res # hloc[o].res
              /\ Len(sent'[o]) \in 1..4
              /\ LacksField(hloc'[o].res))
                => (hres'[o] = Returned(NoneT, None) /\ hpc'[o] = "over")
          /\ hpc[o] = "over" => (sent'[o] = sent[o] /\ hres'[o] = hres[o])]_vars

\* the response of step 4 came without CLTID, the worker has recorded the
\* failure, and four requests were sent
C14_Witness ==
    \E o \in Requests :
        /\ Len(sent[o]) = 4
        /\ hloc[o].res = [name \in AuthFields |-> IF name = "CLTID" THEN None ELSE "v"]
        /\ hres[o] = Returned(NoneT, None)
        /\ wpc[o] = "done"

\* the number of requests of the handshake, the finalizing navigation
\* included; the fetch of the page comes after them
HandshakeRequests == 6

\* C15: every request of the handshake, from the first post to the
\* navigation that finalizes the session, carries a Referer, and from the
\* second on its origin is the origin of the endpoint of the request before.
C15_RefererChain ==
    \A o \in Requests :
        \A i \in 1..Len(sent[o]) :
            i <= HandshakeRequests =>
                /\ sent[o][i].referer # NoHeader
                /\ i >= 2 => Origin(sent[o][i].referer) = Origin(sent[o][i-1].url)

\* the dict of a status response
WellFormed(resp) ==
    /\ DOMAIN resp = {"code", "id", "status", "progress", "files", "error"}
    /\ resp.status \in {"pending", "running", "finished", "failed"}
    /\ \A k \in DOMAIN resp.progress : resp.progress[k] \in 0..100
    /\ \A i \in 1..Len(resp.files) : \E f \in Fmts : resp.files[i][2] = f

\* C16: an error raised in the worker (by the extraction call or by the start
\* of a sub-job) takes the worker to its except clause: the status is set to
\* failed, then the error to the text of the exception, and the worker is
\* over; afterwards the status stays failed and the error is that text,
\* unless a sub-job that was running has replaced it by its own.  Every
\* status response is a well-formed dict.
C16_ErrorsRecorded ==
    [][/\ \A o \in DOMAIN heap :
             /\ wloc'[o].exc # wloc[o].exc =>
                   (wpc'[o] = "set_error" /\ heap'[o].status = "failed")
             /\ (wpc[o] = "set_error" /\ wpc'[o] # "set_error") =>
                   /\ wpc'[o] = "done"
                   /\ heap'[o].status = "failed"
                   /\ heap'[o].error = wloc[o].exc
             /\ (wpc'[o] = "done" /\ wloc'[o].exc # None) =>
                   /\ heap'[o].status = "failed"
                   /\ \/ heap'[o].error = wloc'[o].exc
                      \/ \E f \in Fmts :
                            jpc'[o][f] = "failed" /\ heap'[o].error = jexc'[o][f]
       /\ \A c \in Clients : IsStatus(cresp'[c]) => WellFormed(cresp'[c])]_vars

\* the start of the second sub-job raised after the first one had failed, and
\* a poller has received the failed status with the text of that error
C16_Witness ==
    \E c \in Clients, o \in DOMAIN heap :
        /\ wpc[o] = "done" /\ wloc[o].exc = "can't start new thread"
        /\ jpc[o]["mp4"] = "failed"
        /\ IsStatus(cresp[c]) /\ cresp[c].id = heap[o].id
        /\ cresp[c].status = "failed"
        /\ cresp[c].error = "can't start new thread"

C18_FailuresReturned ==
    /\ \A page \in Pages : extract_from_html(page).kind = "return"
    /\ \A o \in Requests :
          hres[o].kind = "raise" => hres[o].msg = "ConnectionError"

\* the values the code assigns to status and to error
Statuses == {"pending", "running", "finished", "failed"}
Errors ==
    {None, "Failed to obtain video information. Check credentials or URL.",
     "Unable to find m3u8 URL in HTML.", "can't start new thread"}
        \cup UNION {ErrorTexts(f) : f \in Fmts}

C20_TerminalAfterJobs ==
    \A o \in DOMAIN heap :
        heap[o].status \in {"finished", "failed"} =>
            \A f \in Fmts : jpc[o][f] # "run"

\* the progress maps differ at key k
ChangedAt(p, q, k) ==
    \/ (k \in DOMAIN p) # (k \in DOMAIN q)
    \/ k \in DOMAIN p /\ k \in DOMAIN q /\ p[k] # q[k]

C22_LastErrorKept ==
    [][\A o \in DOMAIN heap :
          /\ \A f \in Fmts :
                (jpc[o][f] = "run" /\ jpc'[o][f] = "failed")
                    => heap'[o].error = jexc'[o][f]
          /\ (/\ wpc'[o] = "done" /\ wloc'[o].exc = None
              /\ \A f \in Fmts : jpc'[o][f] = "failed")
                => /\ heap'[o].status = "failed"
                   /\ \E f \in Fmts : heap'[o].error = jexc'[o][f]]_vars

\* the two extractions gave the same title and the same manifest url
\* (extract_from_login returns the title first, extract_from_html the url)
SameOutcome(from_login, from_html) ==
    /\ from_login.kind = "return" /\ from_html.kind = "return"
    /\ from_login.a = from_html.b
    /\ from_login.b = from_html.a

\* C23: once extract_from_login has fetched and parsed the page, its outcome
\* is the outcome of extract_from_html on the same page.
C23_SameExtraction ==
    \A o \in Requests :
        (hpc[o] = "over" /\ "source" \in DOMAIN hloc[o].res)
            => SameOutcome(hres[o], extract_from_html(hloc[o].res))

\* the nine characters a file name may not hold, each with the code point of
\* its full-width form
Counterparts ==
    { <<"\\", "U+FF3C">>, <<"/", "U+FF0F">>, <<":", "U+FF1A">>, <<"*", "U+FF0A">>,
      <<"?", "U+FF1F">>, <<"\"", "U+FF02">>, <<"<", "U+FF1C">>, <<">", "U+FF1E">>,
      <<"|", "U+FF5C">> }
Invalid9 == {p[1] : p \in Counterparts}
\* what a character of a title becomes
Sanitized(ch) ==
    IF ch \in Invalid9 THEN (CHOOSE p \in Counterparts : p[1] = ch)[2] ELSE ch
\* two titles of the same length that differ only where one has an invalid
\* character and the other its full-width form
AlikeButWidth(s, t) ==
    /\ Len(s) = Len(t)
    /\ \A i \in 1..Len(s) : Sanitized(s[i]) = Sanitized(t[i])

\* C24: the title the worker holds is the title of the page with each of the
\* nine invalid characters replaced by its own full-width form and every
\* other character kept: same length, no invalid character left, equal to
\* the sanitized form of another title only if the two differ in width
\* alone, and unchanged by a second sanitization.
C24_Sanitization ==
    /\ Cardinality(Counterparts) = 9
    /\ Cardinality({p[2] : p \in Counterparts}) = 9
    /\ \A p \in Counterparts : Translate(<<p[1]>>) = <<p[2]>> /\ p[2] \notin Invalid9
    /\ \A o \in DOMAIN heap :
          (request[o].route = "html" /\ wpc[o] \notin {"unstarted", "start", "extract"}) =>
              LET title == request[o].file.h1
                  out == wloc[o].video_title
              IN  /\ out = Translate(title)
                  /\ Len(out) = Len(title)
                  /\ \A i \in 1..Len(out) :
                        out[i] \notin Invalid9 /\ out[i] = Sanitized(title[i])
                  /\ wpc[o] = "spawn_mp4" =>
                        \A other \in Titles :
                            Translate(other) = out => AlikeButWidth(other, title)
                  /\ Translate(out) = out

\* the worker holds a title whose slash was replaced and whose letter was kept
C24_Witness ==
    \E o \in DOMAIN heap :
        /\ request[o].route = "html"
        /\ request[o].file.h1 = <<"/", "L">>
        /\ wloc[o].video_title = <<"U+FF0F", "L">>

\* C25: a record whose status is failed has an error, and so has every
\* status response that reports failed.
C25_FailedHasError ==
    /\ \A o \in DOMAIN heap : heap[o].status = "failed" => heap[o].error # None
    /\ \A c \in Clients :
          (IsStatus(cresp[c]) /\ cresp[c].status = "failed") => cresp[c].error # None

\* C26: the sub-jobs of two different tasks write different paths, the files
\* of two tasks have no path in common, and the removal that follows a
\* download of one task deletes no file of another task.
C26_ArtifactsDisjoint ==
    [][/\ \A o1, o2 \in DOMAIN heap' :
             o1 # o2 =>
                 /\ \A f1, f2 \in Fmts :
                       (jpc'[o1][f1] # "unstarted" /\ jpc'[o2][f2] # "unstarted")
                           => PathJoin(DEFAULT_DOWNLOAD_FOLDER, <<wloc'[o1].video_title, f1>>)
                                # PathJoin(DEFAULT_DOWNLOAD_FOLDER, <<wloc'[o2].video_title, f2>>)
                 /\ \A i \in 1..Len(heap'[o1].files), j \in 1..Len(heap'[o2].files) :
                       heap'[o1].files[i] # heap'[o2].files[j]
       /\ \A c \in Clients :
             (cpc[c] = "remove" /\ disk' # disk) =>
                 \A o \in DOMAIN heap \ {cacc[c].task} :
                     \A i \in 1..Len(heap[o].files) : heap[o].files[i] \notin disk \ disk']_vars

\* ---------------------------------------------------------------------------
\* The calendar backend's session store (src/backend.py).  Its endpoints are
\* plain functions, which the server runs on a pool of threads: each caller
\* below is one request at a time, and each step is one access to _SESSIONS.

\* two requests are in flight at a time: one can run between the test and the
\* access of the other
Callers == {1, 2}

\* uuid.uuid4().hex: the i-th token
Hex(i) == <<"hex", i>>

Tokens == {Hex(i) : i \in 1..MaxTokens}

\* what the X-Auth-Token header of a request can hold: nothing, the empty
\* string, or a token
NoToken == <<None>>

EmptyToken == <<>>

Headers == {NoToken, EmptyToken} \cup Tokens

\* the session of a guest
Guest == None

\* the session of a user who logged in
LearnUsClient == "LearnUsClient"

\* not x_auth_token
Absent(x_auth_token) == x_auth_token \in {NoToken, EmptyToken}

\* _SESSIONS[token] = client
Store(sessions, token, client) ==
    [t \in DOMAIN sessions \cup {token} |-> IF t = token THEN client ELSE sessions[t]]

\* _SESSIONS.get(token): the variant of pop that leaves the entry in place
Kept(sessions, token) == sessions

\* _SESSIONS.pop(token), for a token that is in the store
Pop(sessions, token) == [t \in DOMAIN sessions \ {token} |-> sessions[t]]

\* a request enters the backend: its route and its header
Call(b, op, x_auth_token) ==
    /\ bpc[b] = "idle"
    /\ bpc' = [bpc EXCEPT ![b] = "check"]
    /\ bop' = [bop EXCEPT ![b] = [op |-> op, token |-> x_auth_token,
                                  late |-> x_auth_token \in loggedout]]
    /\ bresp' = [bresp EXCEPT ![b] = 0]
    /\ UNCHANGED <<_SESSIONS, bissued, loggedout>>
    /\ UNCHANGED hvars
    /\ UNCHANGED tvars

\* POST /guest_login: a fresh token, stored with no client
guest_login(b) ==
    /\ bpc[b] = "idle"
    /\ \E token \in Tokens \ bissued :
          /\ bissued' = bissued \cup {token}
          /\ _SESSIONS' = Store(_SESSIONS, token, Guest)
    /\ bop' = [bop EXCEPT ![b] = [op |-> "guest_login"]]
    /\ bresp' = [bresp EXCEPT ![b] = 200]
    /\ UNCHANGED <<bpc, loggedout>>
    /\ UNCHANGED hvars
    /\ UNCHANGED tvars

\* POST /login with credentials the portal accepts: a fresh token, stored with
\* the client
login(b) ==
    /\ bpc[b] = "idle"
    /\ \E token \in Tokens \ bissued :
          /\ bissued' = bissued \cup {token}
          /\ _SESSIONS' = Store(_SESSIONS, token, LearnUsClient)
    /\ bop' = [bop EXCEPT ![b] = [op |-> "login"]]
    /\ bresp' = [bresp EXCEPT ![b] = 200]
    /\ UNCHANGED <<bpc, loggedout>>
    /\ UNCHANGED hvars
    /\ UNCHANGED tvars

\* POST /login when client.login raises: 400, no token, nothing stored
login_failed(b) ==
    /\ bpc[b] = "idle"
    /\ bop' = [bop EXCEPT ![b] = [op |-> "login"]]
    /\ bresp' = [bresp EXCEPT ![b] = 400]
    /\ UNCHANGED <<_SESSIONS, bissued, bpc, loggedout>>
    /\ UNCHANGED hvars
    /\ UNCHANGED tvars

\* GET /ping, a route that depends on get_client
ping(b, x_auth_token) == Call(b, "ping", x_auth_token)

\* POST /logout
logout(b, x_auth_token) == Call(b, "logout", x_auth_token)

\* if not x_auth_token or x_auth_token not in _SESSIONS: 401
Unauthorized(b) ==
    /\ bpc[b] = "check"
    /\ Absent(bop[b].token) \/ bop[b].token \notin DOMAIN _SESSIONS
    /\ bpc' = [bpc EXCEPT ![b] = "idle"]
    /\ bresp' = [bresp EXCEPT ![b] = 401]
    /\ UNCHANGED <<_SESSIONS, bissued, bop, loggedout>>
    /\ UNCHANGED hvars
    /\ UNCHANGED tvars

\* the test passed: on to the access to the store
Authorized(b) ==
    /\ bpc[b] = "check"
    /\ ~ Absent(bop[b].token)
    /\ bop[b].token \in DOMAIN _SESSIONS
    /\ bpc' = [bpc EXCEPT ![b] = IF bop[b].op = "logout" THEN "pop" ELSE "read"]
    /\ UNCHANGED <<_SESSIONS, bissued, bop, bresp, loggedout>>
    /\ UNCHANGED hvars
    /\ UNCHANGED tvars

\* get_client: return _SESSIONS[x_auth_token], and the route answers; a
\* KeyError when the entry has gone since the test
get_client(b) ==
    /\ bpc[b] = "read"
    /\ bpc' = [bpc EXCEPT ![b] = "idle"]
    /\ bresp' = [bresp EXCEPT ![b] = IF bop[b].token \in DOMAIN _SESSIONS THEN 200 ELSE 500]
    /\ UNCHANGED <<_SESSIONS, bissued, bop, loggedout>>
    /\ UNCHANGED hvars
    /\ UNCHANGED tvars

\* logout: client = _SESSIONS.pop(x_auth_token), the cache entry of the client
\* is dropped and the route answers ok; a KeyError when the entry has gone
\* since the test
Remove_session(b) ==
    /\ bpc[b] = "pop"
    /\ bpc' = [bpc EXCEPT ![b] = "idle"]
    /\ IF bop[b].token \in DOMAIN _SESSIONS
       THEN /\ _SESSIONS' = Pop(_SESSIONS, bop[b].token)
            /\ bresp' = [bresp EXCEPT ![b] = 200]
            /\ loggedout' = loggedout \cup {bop[b].token}
       ELSE /\ bresp' = [bresp EXCEPT ![b] = 500]
            /\ UNCHANGED <<_SESSIONS, loggedout>>
    /\ UNCHANGED <<bissued, bop>>
    /\ UNCHANGED hvars
    /\ UNCHANGED tvars

NextSessions ==
    \/ \E b \in Callers : guest_login(b)
    \/ \E b \in Callers : login(b)
    \/ \E b \in Callers : login_failed(b)
    \/ \E b \in Callers, x \in Headers : ping(b, x)
    \/ \E b \in Callers, x \in Headers : logout(b, x)
    \/ \E b \in Callers : Unauthorized(b)
    \/ \E b \in Callers : Authorized(b)
    \/ \E b \in Callers : get_client(b)
    \/ \E b \in Callers : Remove_session(b)

\* the backend alone: no request to the downloader
SpecSessions == InitWith(<<>>) /\ [][NextSessions]_vars

\* the request of caller b is answered in this step
Answered(b) == bpc[b] # "idle" /\ bpc'[b] = "idle"

\* C27: a request whose token was logged out before it came is answered 401,
\* a second logout included; a request is answered ok only for a token that
\* was issued and is in the store; a token that is in the store passes the
\* test of get_client and of logout; an entry leaves the store only through
\* the logout that names it, never comes back, and no step changes the
\* session of a token that stays.
C27_TokenLifetime ==
    [][/\ \A b \in Callers :
             Answered(b) =>
                 /\ bop[b].late => bresp'[b] = 401
                 /\ bresp'[b] = 200 =>
                        bop[b].token \in bissued /\ bop[b].token \in DOMAIN _SESSIONS
                 /\ (bpc[b] = "read" /\ bop[b].token \in DOMAIN _SESSIONS) => bresp'[b] = 200
       /\ \A b \in Callers :
             (bpc[b] = "check" /\ bpc'[b] # "check") =>
                 (bop[b].token \in DOMAIN _SESSIONS <=> bpc'[b] # "idle")
       /\ \A t \in DOMAIN _SESSIONS :
             IF t \in DOMAIN _SESSIONS'
             THEN _SESSIONS'[t] = _SESSIONS[t]
             ELSE \E b \in Callers :
                     /\ bpc[b] = "pop" /\ Answered(b)
                     /\ bop[b].op = "logout" /\ bop[b].token = t
                     /\ bresp'[b] = 200
                     /\ DOMAIN _SESSIONS' = DOMAIN _SESSIONS \ {t}
       /\ \A t \in loggedout' : t \notin DOMAIN _SESSIONS'
       /\ \A t \in DOMAIN _SESSIONS' \ DOMAIN _SESSIONS : t \notin bissued]_vars

\* a second logout of a token was answered 401 while the session of another
\* token, issued before that logout, is still in the store
C27_Witness ==
    \E b \in Callers :
        /\ bpc[b] = "idle"
        /\ bop[b].op = "logout"
        /\ bop[b].late
        /\ bresp[b] = 401
        /\ \E t \in DOMAIN _SESSIONS : t # bop[b].token

====
